---- MODULE Spec2Model ----
(***************************************************************************)
(* Event store of the cyber_demo platform: MockDataStore (mock-data-store), *)
(* AISecurityAnalyzer (ai-service), the generator and the API routes that   *)
(* call them.  One action per synchronous run of a handler between two      *)
(* awaits (JavaScript runs each such run to completion).                    *)
(***************************************************************************)
EXTENDS Integers, Sequences, FiniteSets, TLC

\* ------------------------------------------------------------------ bounds
\* Scaled stand-in for the store's capacity of 1000 events.
Capacity == 2
\* Scaled stand-in for the 50 sample events of the initial load.
SampleCount == 1
\* Number of addEvent calls (API and scheduler together) in one behaviour.
MaxCalls == 2
\* Number of setTimeout(generateEvent) timers pending at the same time.
MaxTimers == 1
\* Number of PATCH /api/events/[id] requests in one behaviour.
MaxPatches == 1
\* Number of stored events in a run of the similarity search.
MaxSimilar == 3
\* Number of stored events in a run of the top threats.
MaxThreats == 3
\* Events in a store whose statistics are asked for at a moment of a zone.
MaxWindow == 2

\* ------------------------------------------------------- values and inputs
NoId == 0
NoScore == -1
\* An id a client puts in the body of POST /api/events.
CustomId == 101
\* An id no event of the store carries.
UnknownId == 999
\* The instant at which the generator stamps the events of this run.
Now == 2
\* Timestamps of the sample load, Date.now() - Math.random() * 7 days: before
\* or after the instant Now of an event generated while the load runs.
SampleTimes == {1, 3}

Categories ==
  {"intrusion", "malware", "network_anomaly", "data_breach", "phishing", "dos_attack"}
Severities == {"low", "medium", "high", "critical"}
Statuses == {"new", "investigating", "resolved", "false_positive"}
\* The statuses the PATCH requests of a run ask for.
PatchStatuses == {"resolved"}

\* Embedding vectors (length 2 stands for length 1536).
Vectors == {<<1, 0>>}

\* What generateIntrusionEvent and generateDataBreachEvent return (the fields
\* the store reads).
IntrusionData ==
  [id |-> NoId, timestamp |-> Now, event_type |-> "intrusion",
   severity |-> "high", status |-> "new"]

DataBreachData ==
  [id |-> NoId, timestamp |-> Now, event_type |-> "data_breach",
   severity |-> "critical", status |-> "new"]

\* What generateBatchEvents returns for the sample load, restricted to one
\* generator.
SampleData == {IntrusionData}

\* What generateRandomEvent returns for a request or a timer, restricted to
\* one generator.
GenData == {DataBreachData}

\* Bodies of POST /api/events without action = 'generate': the rest of the
\* body is passed to addEvent as it is.
CustomData ==
  { [id |-> CustomId, timestamp |-> Now, event_type |-> "phishing",
     severity |-> "medium", status |-> "new"] }

\* Bodies of POST /api/events that name a category outside the closed set
\* or a status other than new: they are passed to addEvent in the same way.
UncheckedData ==
  { [id |-> NoId, timestamp |-> Now, event_type |-> "ransomware",
     severity |-> "medium", status |-> "new"],
    [id |-> NoId, timestamp |-> Now, event_type |-> "phishing",
     severity |-> "medium", status |-> "resolved"] }

\* -------------------------------------------------------- data-generator
\* Math.floor(Math.random() * 50) + 1 is one of 1..MaxAttempts.
MaxAttempts == 50

\* ['SSH', 'HTTP', 'FTP'][Math.floor(Math.random() * 3)]
Protocols == {"SSH", "HTTP", "FTP"}

intrusionSeverity_AtLeast(attempts) ==
  IF attempts >= 30 THEN "critical"
  ELSE IF attempts >= 15 THEN "high"
  ELSE IF attempts >= 5 THEN "medium"
  ELSE "low"

\* attempts > 30 ? 'critical' : attempts > 15 ? 'high' : attempts > 5 ? 'medium' : 'low'
intrusionSeverity(attempts) ==
  IF attempts > 30 THEN "critical"
  ELSE IF attempts > 15 THEN "high"
  ELSE IF attempts > 5 THEN "medium"
  ELSE "low"

\* What generateIntrusionEvent returns for the attempts and the protocol it
\* drew (the fields the store reads and the two of raw_data).
intrusionEvent(attempts, protocol) ==
  [id |-> NoId, timestamp |-> Now, event_type |-> "intrusion",
   severity |-> intrusionSeverity(attempts), status |-> "new",
   attempts |-> attempts, protocols |-> protocol]

\* ------------------------------------------------------------ ai-service
\* JSON.stringify of a ThreatAnalysis: the serialised fields in key order.
JSONstringify(a) == <<a.threat_type, a.confidence_score, a.risk_level>>

mockAnalyses ==
  [ intrusion |->
      [threat_type |-> "Unauthorized Access Attempt", confidence_score |-> 87,
       risk_level |-> "high"],
    malware |->
      [threat_type |-> "Malicious File Execution", confidence_score |-> 94,
       risk_level |-> "critical"],
    network_anomaly |->
      [threat_type |-> "Abnormal Network Traffic Pattern", confidence_score |-> 76,
       risk_level |-> "medium"] ]

getMockAnalysis(event_type) ==
  IF event_type \in DOMAIN mockAnalyses
  THEN mockAnalyses[event_type]
  ELSE mockAnalyses["intrusion"]

\* What the completion of the external model parses to.
RealAnalysis ==
  [threat_type |-> "Model Assessed Threat", confidence_score |-> 95, risk_level |-> "high"]

\* The external provider: no API key, a key whose every request fails, or a
\* key whose every request succeeds.
Providers == {"absent", "failing", "working"}

\* process.env.OPENAI_API_KEY is set.
hasApiKey(p) == p # "absent"

\* The providers of a run in which requests are made at different times: a
\* key some of whose requests succeed and some fail as well.
AllProviders == Providers \cup {"unsteady"}

\* Outcomes of one request to the external provider.
Outcomes(p) ==
  IF p = "absent" THEN {"absent"}
  ELSE IF p = "failing" THEN {"fail"}
  ELSE IF p = "working" THEN {"ok"}
  ELSE {"ok", "fail"}

analyzeSecurityEvent_NoFallback(p, outcome, event_type) ==
  IF ~hasApiKey(p) THEN [thrown |-> FALSE, value |-> getMockAnalysis(event_type)]
  ELSE IF outcome = "ok" THEN [thrown |-> FALSE, value |-> RealAnalysis]
  ELSE [thrown |-> TRUE, value |-> RealAnalysis]

\* analyzeSecurityEvent: the mock analysis without an API key, the parsed
\* completion on success, the mock analysis from the catch block on failure.
analyzeSecurityEvent(p, outcome, event_type) ==
  IF ~hasApiKey(p) THEN [thrown |-> FALSE, value |-> getMockAnalysis(event_type)]
  ELSE IF outcome = "ok" THEN [thrown |-> FALSE, value |-> RealAnalysis]
  ELSE [thrown |-> FALSE, value |-> getMockAnalysis(event_type)]

\* generateEmbedding: a random vector without an API key or on failure, the
\* provider's vector on success; it never throws.
generateEmbedding(p, outcome) == Vectors

\* ------------------------------------------------------- mock-data-store
\* try { analysis = await ...; event.ai_analysis = ...; event.confidence_score = ... }
\* catch { log }
withAnalysis(ev, r) ==
  IF r.thrown THEN ev
  ELSE [ev EXCEPT !.ai_analysis = JSONstringify(r.value),
                  !.confidence_score = r.value.confidence_score]

\* uuidv4(): a fresh identifier, here the number of the place that asks for
\* it (the i-th sample of the load, the c-th call of addEvent).
uuidv4(site, n) == IF site = "sample" THEN n ELSE SampleCount + n

\* { id: uuidv4(), ...eventData }: a key of eventData overrides the one before it.
newEvent(uuid, data) ==
  [id |-> IF data.id # NoId THEN data.id ELSE uuid,
   ord |-> 0,
   timestamp |-> data.timestamp,
   event_type |-> data.event_type,
   severity |-> data.severity,
   status |-> data.status,
   ai_analysis |-> <<>>,
   confidence_score |-> NoScore,
   embedding |-> <<>>]

\* { id: uuidv4(), ...eventData, timestamp: ... } of the sample load.
sampleEvent(uuid, data, ts) == [newEvent(uuid, data) EXCEPT !.timestamp = ts]

sliceFrom_KeepLast(evs) ==
  IF Len(evs) > Capacity THEN SubSeq(evs, Len(evs) - Capacity + 1, Len(evs)) ELSE evs

\* if (this.events.length > 1000) this.events = this.events.slice(0, 1000)
sliceFrom(evs) ==
  IF Len(evs) > Capacity THEN SubSeq(evs, 1, Capacity) ELSE evs

unshiftAndTrim_NoTrim(evs, ev) == <<ev>> \o evs

\* this.events.unshift(event), then the capacity check.
unshiftAndTrim(evs, ev) == sliceFrom(<<ev>> \o evs)

\* Array.prototype.sort with (a, b) => b.timestamp - a.timestamp: stable,
\* newest timestamp first.
RECURSIVE insertSorted(_, _)
insertSorted(sorted, ev) ==
  IF sorted = <<>> THEN <<ev>>
  ELSE IF Head(sorted).timestamp >= ev.timestamp
       THEN <<Head(sorted)>> \o insertSorted(Tail(sorted), ev)
       ELSE <<ev>> \o sorted

RECURSIVE sortByTimestamp(_)
sortByTimestamp(evs) ==
  IF evs = <<>> THEN <<>>
  ELSE insertSorted(sortByTimestamp(SubSeq(evs, 1, Len(evs) - 1)), evs[Len(evs)])

\* this.events.find(e => e.id === id): the index of the first match, 0 if none.
findIndex_First(evs, id) == IF evs # <<>> THEN 1 ELSE 0

findIndex(evs, id) ==
  IF \E i \in 1..Len(evs) : evs[i].id = id
  THEN CHOOSE i \in 1..Len(evs) :
         evs[i].id = id /\ \A j \in 1..(i - 1) : evs[j].id # id
  ELSE 0

getEventById(evs, id) == findIndex(evs, id) # 0

updateEventStatus_FirstEvent(evs, id, status, aiAnalysis) ==
  LET i == IF findIndex(evs, id) # 0 THEN findIndex(evs, id)
           ELSE IF evs # <<>> THEN 1 ELSE 0 IN
  IF i = 0 THEN [events |-> evs, ok |-> FALSE]
  ELSE [events |-> [evs EXCEPT ![i].status = status,
                               ![i].ai_analysis =
                                 IF aiAnalysis # <<>> THEN aiAnalysis ELSE @],
        ok |-> TRUE]

updateEventStatus_AlwaysReplace(evs, id, status, aiAnalysis) ==
  LET i == findIndex(evs, id) IN
  IF i = 0 THEN [events |-> evs, ok |-> FALSE]
  ELSE [events |-> [evs EXCEPT ![i].status = status, ![i].ai_analysis = aiAnalysis],
        ok |-> TRUE]

updateEventStatus_OnlyFromNew(evs, id, status, aiAnalysis) ==
  LET i == findIndex(evs, id) IN
  IF i = 0 THEN [events |-> evs, ok |-> FALSE]
  ELSE [events |-> [evs EXCEPT ![i].status = IF @ = "new" THEN status ELSE @,
                               ![i].ai_analysis =
                                 IF aiAnalysis # <<>> THEN aiAnalysis ELSE @],
        ok |-> TRUE]

\* updateEventStatus(id, status, aiAnalysis?): the new collection and the flag.
updateEventStatus(evs, id, status, aiAnalysis) ==
  LET i == findIndex(evs, id) IN
  IF i = 0 THEN [events |-> evs, ok |-> FALSE]
  ELSE [events |-> [evs EXCEPT ![i].status = status,
                               ![i].ai_analysis =
                                 IF aiAnalysis # <<>> THEN aiAnalysis ELSE @],
        ok |-> TRUE]

\* A number the similarity search computes or compares, kept exact: the
\* value sgn * sqrt(num / den) with den > 0, or NaN.
NaN == [nan |-> TRUE, sgn |-> 0, num |-> 0, den |-> 1]
Zero == [nan |-> FALSE, sgn |-> 0, num |-> 0, den |-> 1]

\* x > y of two such numbers; false when one of them is NaN.
greaterThan_OrEqual(x, y) ==
  /\ ~x.nan
  /\ ~y.nan
  /\ x.sgn * x.num * y.den >= y.sgn * y.num * x.den

greaterThan(x, y) ==
  /\ ~x.nan
  /\ ~y.nan
  /\ x.sgn * x.num * y.den > y.sgn * y.num * x.den

\* The loop of cosineSimilarity: the sum of a[i] * b[i] over the indices.
RECURSIVE sumProducts(_, _)
sumProducts(a, b) ==
  IF a = <<>> THEN 0 ELSE Head(a) * Head(b) + sumProducts(Tail(a), Tail(b))

\* dotProduct / (Math.sqrt(normA) * Math.sqrt(normB)), 0 / 0 being NaN.
quotient(dotProduct, normA, normB) ==
  IF normA * normB = 0 THEN NaN
  ELSE [nan |-> FALSE,
        sgn |-> IF dotProduct > 0 THEN 1 ELSE IF dotProduct < 0 THEN -1 ELSE 0,
        num |-> dotProduct * dotProduct,
        den |-> normA * normB]

cosineSimilarity_ByFirstNorm(a, b) ==
  IF Len(a) # Len(b) THEN Zero
  ELSE quotient(sumProducts(a, b), sumProducts(a, a), sumProducts(a, a))

cosineSimilarity_DotOnly(a, b) ==
  IF Len(a) # Len(b) THEN Zero
  ELSE quotient(sumProducts(a, b), 1, 1)

\* cosineSimilarity(a, b)
cosineSimilarity(a, b) ==
  IF Len(a) # Len(b) THEN Zero
  ELSE quotient(sumProducts(a, b), sumProducts(a, a), sumProducts(b, b))

insertBySimilarity_Append(sorted, item) == Append(sorted, item)

\* The place sort((a, b) => b.similarity - a.similarity) gives to item among
\* the items before it: after those that are not less similar (the sort is
\* stable).
RECURSIVE insertBySimilarity(_, _)
insertBySimilarity(sorted, item) ==
  IF sorted = <<>> THEN <<item>>
  ELSE IF greaterThan(item.similarity, Head(sorted).similarity)
       THEN <<item>> \o sorted
       ELSE <<Head(sorted)>> \o insertBySimilarity(Tail(sorted), item)

RECURSIVE sortBySimilarity(_)
sortBySimilarity(items) ==
  IF items = <<>> THEN <<>>
  ELSE insertBySimilarity(sortBySimilarity(SubSeq(items, 1, Len(items) - 1)),
                          items[Len(items)])

\* Array.prototype.slice(start, end) for start, end >= 0: the elements of
\* (0-based) index start .. end - 1 that exist.
slice(arr, start, end) ==
  SubSeq(arr, start + 1, IF end < Len(arr) THEN end ELSE Len(arr))

\* getEvents(limit, offset)
getEvents(evs, limit, offset) == slice(evs, offset, offset + limit)

\* if (value) events = events.filter(event => event[field] === value); a
\* parameter the request does not carry is "".
filterBy(evs, field, value) ==
  IF value = "" THEN evs ELSE SelectSeq(evs, LAMBDA e : e[field] = value)

searchSimilarEvents_NoEarlyReturn(evs, targetEvent, threshold, limit) ==
  slice(SelectSeq(evs, LAMBDA e : e.id # targetEvent.id), 0, limit)

\* searchSimilarEvents(targetEvent, threshold, limit)
searchSimilarEvents(evs, targetEvent, threshold, limit) ==
  IF targetEvent.embedding = <<>> THEN <<>>
  ELSE LET candidates ==
             SelectSeq(evs, LAMBDA e : e.embedding # <<>> /\ e.id # targetEvent.id)
           similarities ==
             [k \in 1..Len(candidates) |->
                [event |-> candidates[k],
                 similarity |-> cosineSimilarity(targetEvent.embedding,
                                                 candidates[k].embedding)]]
           above ==
             SelectSeq(similarities, LAMBDA item : greaterThan(item.similarity, threshold))
           top == slice(sortBySimilarity(above), 0, limit) IN
       [k \in 1..Len(top) |-> top[k].event]

RECURSIVE reduceCount_Overwrite(_, _, _)
reduceCount_Overwrite(evs, field, acc) ==
  IF evs = <<>> THEN acc
  ELSE LET k == Head(evs)[field] IN
       reduceCount_Overwrite(Tail(evs), field,
                             IF k \in DOMAIN acc THEN [acc EXCEPT ![k] = 1]
                             ELSE acc @@ (k :> 1))

\* this.events.reduce((acc, event) => { acc[event[field]] =
\* (acc[event[field]] || 0) + 1; return acc; }, {})
RECURSIVE reduceCount(_, _, _)
reduceCount(evs, field, acc) ==
  IF evs = <<>> THEN acc
  ELSE LET k == Head(evs)[field] IN
       reduceCount(Tail(evs), field,
                   IF k \in DOMAIN acc THEN [acc EXCEPT ![k] = @ + 1]
                   ELSE acc @@ (k :> 1))

\* this.events.filter(e => e[field] === value).length
filterCount(evs, field, value) ==
  Cardinality({i \in 1..Len(evs) : evs[i][field] = value})

\* getStats(): the counts that do not depend on the clock.
getStats(evs) ==
  [totalEvents |-> Len(evs),
   criticalEvents |-> filterCount(evs, "severity", "critical"),
   highEvents |-> filterCount(evs, "severity", "high"),
   resolvedEvents |-> filterCount(evs, "status", "resolved"),
   newEvents |-> filterCount(evs, "status", "new"),
   eventsByType |-> reduceCount(evs, "event_type", <<>>),
   eventsBySeverity |-> reduceCount(evs, "severity", <<>>),
   eventsByStatus |-> reduceCount(evs, "status", <<>>)]

\* Times are in hours since an epoch at a UTC midnight; Day is the
\* 24 * 60 * 60 * 1000 ms of the code.
Day == 24

\* The zone of the process: the hours its clock is ahead of UTC, and the
\* moment from which the clock is moved by `shift` (summer time).
local(t, zone) == t + zone.offset + (IF t >= zone.shiftAt THEN zone.shift ELSE 0)

\* The moment at which the clock of the zone reads l.
fromLocal(l, zone) ==
  LET u == l - zone.offset IN
  IF u < zone.shiftAt THEN u ELSE u - zone.shift

\* date.setHours(0, 0, 0, 0) and date.setHours(23, 59, 59, 999): the first
\* and the last whole hour of the local day of t.
setHoursStart(t, zone) == fromLocal(Day * (local(t, zone) \div Day), zone)
setHoursEnd(t, zone) == fromLocal(Day * (local(t, zone) \div Day) + (Day - 1), zone)

\* toISOString().split('T')[0]: the number of the UTC day of t.
toISODate(t) == t \div Day

\* The timestamp of an event whose JSON body wrote it as an ISO string: the
\* store keeps the string, which is no time.
ISOString == -1

\* e.timestamp > t, >= t and <= t with t a Date: a timestamp that is a Date
\* or a number compares by its time, a string becomes NaN and every
\* comparison with it is false.
timestampAfter(ts, t) == ts # ISOString /\ ts > t
timestampAtLeast(ts, t) == ts # ISOString /\ ts >= t
timestampAtMost(ts, t) == ts # ISOString /\ ts <= t

\* this.events.filter(e => e.timestamp > cutoff).length
countAfter(evs, cutoff) ==
  Cardinality({i \in 1..Len(evs) : timestampAfter(evs[i].timestamp, cutoff)})

\* The events of one day of the daily statistics.
dayEvents(evs, dayStart, dayEnd) ==
  SelectSeq(evs, LAMBDA e : timestampAtLeast(e.timestamp, dayStart)
                            /\ timestampAtMost(e.timestamp, dayEnd))

\* The bucket of the day i days before now.
dailyBucket(evs, now, zone, i) ==
  LET dayStart == setHoursStart(now - i * Day, zone)
      dayEnd == setHoursEnd(dayStart, zone)
      es == dayEvents(evs, dayStart, dayEnd) IN
  [date |-> toISODate(dayStart),
   events |-> Len(es),
   critical |-> filterCount(es, "severity", "critical"),
   high |-> filterCount(es, "severity", "high"),
   medium |-> filterCount(es, "severity", "medium"),
   low |-> filterCount(es, "severity", "low")]

\* for (let i = 6; i >= 0; i--) dailyStats.push(...)
dailyStats(evs, now, zone) == [k \in 1..7 |-> dailyBucket(evs, now, zone, 7 - k)]

\* The totals of getStats that depend on the time of the call.
getStatsAt(evs, now, zone) ==
  [totalEvents |-> Len(evs),
   recentEvents |-> countAfter(evs, now - Day),
   weeklyEvents |-> countAfter(evs, now - 7 * Day),
   dailyStats |-> dailyStats(evs, now, zone)]

\* str.split('_') of a category or a severity: the pieces between the
\* underscores.
splitUnderscore(str) ==
  CASE str = "network_anomaly" -> <<"network", "anomaly">>
    [] str = "data_breach" -> <<"data", "breach">>
    [] str = "dos_attack" -> <<"dos", "attack">>
    [] OTHER -> <<str>>

\* const key = `${event.event_type}_${event.severity}`
threatKey(ev) == [event_type |-> ev.event_type, severity |-> ev.severity]

\* key.split('_')
splitKey(key) == splitUnderscore(key.event_type) \o splitUnderscore(key.severity)

\* acc[key] = (acc[key] || 0) + 1 on the entries of acc, which keep the order
\* in which their keys were first set.
countKey(acc, key) ==
  IF \E k \in 1..Len(acc) : acc[k].key = key
  THEN [k \in 1..Len(acc) |->
          IF acc[k].key = key THEN [acc[k] EXCEPT !.count = @ + 1] ELSE acc[k]]
  ELSE Append(acc, [key |-> key, count |-> 1])

\* this.events.reduce(..., {}) of getTopThreats, as Object.entries lists it.
RECURSIVE threatCounts(_, _)
threatCounts(evs, acc) ==
  IF evs = <<>> THEN acc
  ELSE threatCounts(Tail(evs), countKey(acc, threatKey(Head(evs))))

insertByCount_Append(sorted, item) == Append(sorted, item)

\* The place sort((a, b) => b.count - a.count) gives to item among the items
\* before it (the sort is stable).
RECURSIVE insertByCount(_, _)
insertByCount(sorted, item) ==
  IF sorted = <<>> THEN <<item>>
  ELSE IF item.count > Head(sorted).count
       THEN <<item>> \o sorted
       ELSE <<Head(sorted)>> \o insertByCount(Tail(sorted), item)

RECURSIVE sortByCount(_)
sortByCount(items) ==
  IF items = <<>> THEN <<>>
  ELSE insertByCount(sortByCount(SubSeq(items, 1, Len(items) - 1)), items[Len(items)])

\* getTopThreats(limit)
getTopThreats(evs, limit) ==
  LET entries == threatCounts(evs, <<>>)
      mapped == [k \in 1..Len(entries) |->
                   [type |-> splitKey(entries[k].key)[1],
                    count |-> entries[k].count,
                    severity |-> splitKey(entries[k].key)[2]]] IN
  slice(sortByCount(mapped), 0, limit)

addEventNext_NoEmbedAwait(pc) ==
  CASE pc = "start" -> "analysis"
    [] pc = "analysis" -> "returned"
    [] OTHER -> "returned"

\* The await points of addEvent in order: the analysis, the embedding, then
\* the insertion and the return.
addEventNext(pc) ==
  CASE pc = "start" -> "analysis"
    [] pc = "analysis" -> "embedding"
    [] OTHER -> "returned"

generateEventProceeds_Always(isGen) == TRUE

generateEventProceeds_Never(isGen) == FALSE

\* generateEvent: if (!this.isGenerating) return;
generateEventProceeds(isGen) == isGen

startProceeds_Always(isGen) == TRUE

\* startContinuousGeneration: if (this.isGenerating) return;
startProceeds(isGen) == ~isGen

stopContinuousGeneration_Toggle(isGen) == ~isGen

\* stopContinuousGeneration: this.isGenerating = false
stopContinuousGeneration(isGen) == FALSE

\* ------------------------------------------------------------------ state
VARIABLES
  events,        \* MockDataStore.events
  isGenerating,  \* MockDataStore.isGenerating
  provider,      \* how the external provider behaves in this run
  init,          \* position of initializeWithSampleData
  calls,         \* the addEvent calls, in the order in which they were made
  timers,        \* number of pending setTimeout(generateEvent) timers
  patch,         \* the PATCH /api/events/[id] request in flight
  patches,       \* number of PATCH requests made
  inserted,      \* number of events put into the collection so far
  last           \* the operation of the last step and its result

vars ==
  <<events, isGenerating, provider, init, calls, timers, patch, patches, inserted, last>>

NoEvent == newEvent(NoId, [id |-> NoId, timestamp |-> 0, event_type |-> "intrusion",
                           severity |-> "low", status |-> "new"])

IdlePatch == [pc |-> "idle", id |-> NoId, status |-> "new", event_type |-> "intrusion"]

\* A call of addEvent whose caller has gone on.
DoneCall == [pc |-> "done", origin |-> "none", ev |-> NoEvent, ret |-> NoId, ord |-> 0]

\* initializeWithSampleData runs without yielding while init.pc = "run".
Yielded == init.pc # "run"

Op(name, res) == [op |-> name, id |-> NoId, res |-> res]

\* ev with its place in the order of insertion.
Stamp(ev) == [ev EXCEPT !.ord = inserted + 1]

Init ==
  /\ events = <<>>
  /\ isGenerating = FALSE
  /\ provider \in Providers
  /\ init = [pc |-> "run", i |-> 1, ev |-> NoEvent]
  /\ calls = <<>>
  /\ timers = 0
  /\ patch = IdlePatch
  /\ patches = 0
  /\ inserted = 0
  /\ last = Op("step", 0)

\* ------------------------------------------- initializeWithSampleData
\* this.events.push(event) and the next turn of the loop.
InitPush(ev) ==
  /\ events' = Append(events, Stamp(ev))
  /\ inserted' = inserted + 1
  /\ init' = [pc |-> "run", i |-> init.i + 1, ev |-> NoEvent]

\* After the analysis part: Math.random() > 0.2 decides on the embedding.
InitEmbedOrPush(ev) ==
  \E doEmbed \in BOOLEAN :
    IF doEmbed
    THEN /\ init' = [init EXCEPT !.pc = "embedding", !.ev = ev]
         /\ UNCHANGED <<events, inserted>>
    ELSE InitPush(ev)

InitSampleStart ==
  /\ init.pc = "run"
  /\ init.i <= SampleCount
  /\ \E data \in SampleData, ts \in SampleTimes, doAnalyze \in BOOLEAN :
       LET ev == sampleEvent(uuidv4("sample", init.i), data, ts) IN
       IF doAnalyze
       THEN /\ init' = [init EXCEPT !.pc = "analysis", !.ev = ev]
            /\ UNCHANGED <<events, inserted>>
       ELSE InitEmbedOrPush(ev)
  /\ last' = Op("step", 0)
  /\ UNCHANGED <<isGenerating, provider, calls, timers, patch, patches>>

InitAfterAnalysis ==
  /\ init.pc = "analysis"
  /\ \E outcome \in Outcomes(provider) :
       InitEmbedOrPush(
         withAnalysis(init.ev,
                      analyzeSecurityEvent(provider, outcome, init.ev.event_type)))
  /\ last' = Op("step", 0)
  /\ UNCHANGED <<isGenerating, provider, calls, timers, patch, patches>>

InitAfterEmbedding ==
  /\ init.pc = "embedding"
  /\ \E outcome \in Outcomes(provider) :
       \E vec \in generateEmbedding(provider, outcome) :
         InitPush([init.ev EXCEPT !.embedding = vec])
  /\ last' = Op("step", 0)
  /\ UNCHANGED <<isGenerating, provider, calls, timers, patch, patches>>

\* The sort that ends the load.
InitFinish ==
  /\ init.pc = "run"
  /\ init.i > SampleCount
  /\ events' = sortByTimestamp(events)
  /\ init' = [init EXCEPT !.pc = "done"]
  /\ last' = Op("step", 0)
  /\ UNCHANGED <<isGenerating, provider, calls, timers, patch, patches, inserted>>

\* ------------------------------------------------------------- addEvent
\* The call made with eventData by `origin`: the event is built and the
\* analysis requested; the call waits for it.
addEventCall(data, origin) ==
  /\ Len(calls) < MaxCalls
  /\ calls' = Append(calls, [pc |-> addEventNext("start"), origin |-> origin,
                             ev |-> newEvent(uuidv4("call", Len(calls) + 1), data), ret |-> NoId,
                             ord |-> 0])

\* this.events.unshift(event), the capacity check and return event.id.
addEventInsert(c, ev) ==
  /\ events' = unshiftAndTrim(events, Stamp(ev))
  /\ inserted' = inserted + 1
  /\ calls' = [calls EXCEPT ![c].pc = "returned", ![c].ev = NoEvent,
                            ![c].ret = ev.id, ![c].ord = inserted + 1]

AddAfterAnalysis(c) ==
  /\ Yielded
  /\ calls[c].pc = "analysis"
  /\ \E outcome \in Outcomes(provider) :
       LET ev == withAnalysis(calls[c].ev,
                   analyzeSecurityEvent(provider, outcome, calls[c].ev.event_type)) IN
       IF addEventNext("analysis") = "embedding"
       THEN /\ calls' = [calls EXCEPT ![c].pc = "embedding", ![c].ev = ev]
            /\ UNCHANGED <<events, inserted>>
       ELSE addEventInsert(c, ev)
  /\ last' = Op("step", 0)
  /\ UNCHANGED <<isGenerating, provider, init, timers, patch, patches>>

AddAfterEmbedding(c) ==
  /\ Yielded
  /\ calls[c].pc = "embedding"
  /\ \E outcome \in Outcomes(provider) :
       \E vec \in generateEmbedding(provider, outcome) :
         addEventInsert(c, [calls[c].ev EXCEPT !.embedding = vec])
  /\ last' = Op("step", 0)
  /\ UNCHANGED <<isGenerating, provider, init, timers, patch, patches>>

\* ------------------------------------------------------ POST /api/events
PostGenerate ==
  /\ Yielded
  /\ \E data \in GenData : addEventCall(data, "api")
  /\ last' = Op("step", 0)
  /\ UNCHANGED <<events, isGenerating, provider, init, timers, patch, patches, inserted>>

\* POST with action = 'generate' at the time of the request: the generator
\* stamps the event with new Date(), one tick later for each call made.
PostGenerateLater ==
  /\ Yielded
  /\ \E data \in GenData :
       addEventCall([data EXCEPT !.timestamp = Now + Len(calls)], "api")
  /\ last' = Op("step", 0)
  /\ UNCHANGED <<events, isGenerating, provider, init, timers, patch, patches, inserted>>

PostCustom ==
  /\ Yielded
  /\ \E data \in CustomData : addEventCall(data, "api")
  /\ last' = Op("step", 0)
  /\ UNCHANGED <<events, isGenerating, provider, init, timers, patch, patches, inserted>>

PostUnchecked ==
  /\ Yielded
  /\ \E data \in UncheckedData : addEventCall(data, "api")
  /\ last' = Op("step", 0)
  /\ UNCHANGED <<events, isGenerating, provider, init, timers, patch, patches, inserted>>

\* const event = mockDataStore.getEventById(id); the response carries it.
PostRespond(c) ==
  /\ Yielded
  /\ calls[c].pc = "returned"
  /\ calls[c].origin = "api"
  /\ calls' = [calls EXCEPT ![c] = DoneCall]
  /\ last' = Op("step", 0)
  /\ UNCHANGED <<events, isGenerating, provider, init, timers, patch, patches, inserted>>

\* --------------------------------------------- continuous generation
\* Start with the scheduler running (res 1) or not (res 0).
Start ==
  /\ Yielded
  /\ IF startProceeds(isGenerating)
     THEN /\ isGenerating' = TRUE
          /\ \E data \in GenData : addEventCall(data, "sched")
     ELSE UNCHANGED <<isGenerating, calls>>
  /\ last' = Op("start", IF isGenerating THEN 1 ELSE 0)
  /\ UNCHANGED <<events, provider, init, timers, patch, patches, inserted>>

\* Stop with the scheduler running (res 1) or not (res 0).
Stop ==
  /\ Yielded
  /\ isGenerating' = stopContinuousGeneration(isGenerating)
  /\ last' = Op("stop", IF isGenerating THEN 1 ELSE 0)
  /\ UNCHANGED <<events, provider, init, calls, timers, patch, patches, inserted>>

\* After await this.addEvent(newEvent): setTimeout(generateEvent, ...).
SchedContinue(c) ==
  /\ Yielded
  /\ calls[c].pc = "returned"
  /\ calls[c].origin = "sched"
  /\ timers < MaxTimers
  /\ calls' = [calls EXCEPT ![c] = DoneCall]
  /\ timers' = timers + 1
  /\ last' = Op("step", 0)
  /\ UNCHANGED <<events, isGenerating, provider, init, patch, patches, inserted>>

\* A timer fires and runs generateEvent: the check of isGenerating, then
\* the generator and addEvent up to its first await.
TimerFire ==
  /\ Yielded
  /\ timers > 0
  /\ timers' = timers - 1
  /\ IF generateEventProceeds(isGenerating)
     THEN \E data \in GenData : addEventCall(data, "sched")
     ELSE UNCHANGED calls
  /\ last' = Op("timer", IF isGenerating THEN 1 ELSE 0)
  /\ UNCHANGED <<events, isGenerating, provider, init, patch, patches, inserted>>

\* ------------------------------------------- PATCH /api/events/[id]
PatchIds == {UnknownId} \cup {events[i].id : i \in 1..Len(events)}

\* The request up to its first await, or to its response when it has none.
PatchStart ==
  /\ Yielded
  /\ patch.pc = "idle"
  /\ patches < MaxPatches
  /\ patches' = patches + 1
  /\ \E id \in PatchIds, status \in PatchStatuses, requestAnalysis \in BOOLEAN :
       IF requestAnalysis /\ getEventById(events, id)
       THEN /\ patch' = [pc |-> "analysis", id |-> id, status |-> status,
                         event_type |-> events[findIndex(events, id)].event_type]
            /\ last' = Op("step", 0)
            /\ UNCHANGED events
       ELSE LET r == updateEventStatus(events, id, status, <<>>) IN
            /\ events' = r.events
            /\ last' = [op |-> "patch", id |-> id, res |-> IF r.ok THEN 200 ELSE 404]
            /\ UNCHANGED patch
  /\ UNCHANGED <<isGenerating, provider, init, calls, timers, inserted>>

PatchAfterAnalysis ==
  /\ Yielded
  /\ patch.pc = "analysis"
  /\ \E outcome \in Outcomes(provider) :
       LET a == analyzeSecurityEvent(provider, outcome, patch.event_type)
           r == updateEventStatus(events, patch.id, patch.status, JSONstringify(a.value)) IN
       /\ events' = r.events
       /\ last' = [op |-> "patch", id |-> patch.id, res |-> IF r.ok THEN 200 ELSE 404]
  /\ patch' = IdlePatch
  /\ UNCHANGED <<isGenerating, provider, init, calls, timers, patches, inserted>>

\* ------------------------------------------------------ GET /api/events
\* The limit, offset and filters of the requests of a run.
Limits == {1, 2}
Offsets == {0, 1, 2, 3}
Filters ==
  { [severity |-> "", eventType |-> "", status |-> ""],
    [severity |-> "critical", eventType |-> "", status |-> ""],
    [severity |-> "", eventType |-> "intrusion", status |-> ""],
    [severity |-> "", eventType |-> "", status |-> "resolved"] }

\* The body of the response: getEvents(1000, 0), with 1000 the capacity,
\* then the filters, then the page.
listEvents(evs, limit, offset, filter) ==
  LET all == getEvents(evs, Capacity, 0)
      filtered == filterBy(filterBy(filterBy(all, "severity", filter.severity),
                                    "event_type", filter.eventType),
                           "status", filter.status) IN
  [events |-> slice(filtered, offset, offset + limit),
   total |-> Len(filtered),
   hasMore |-> offset + limit < Len(filtered)]

ListGet ==
  /\ Yielded
  /\ \E limit \in Limits, offset \in Offsets, filter \in Filters :
       last' = [op |-> "list", id |-> NoId,
                res |-> listEvents(events, limit, offset, filter),
                limit |-> limit, offset |-> offset, filter |-> filter]
  /\ UNCHANGED <<events, isGenerating, provider, init, calls, timers, patch, patches,
                 inserted>>

\* ------------------------------------------ GET /api/events/[id]/similar
\* The embeddings of the stored events of a run of the search: none (a sample
\* the load gave no embedding), or a vector of the provider.
TestEmbeddings ==
  {<<>>, <<1, 0>>, <<0, 1>>, <<1, 1>>, <<2, 1>>, <<-1, 0>>, <<0, 0>>, <<1>>}

\* The number 1.
One == [nan |-> FALSE, sgn |-> 1, num |-> 1, den |-> 1]

\* The thresholds of the requests of a run: 0, 0.7 (the default of the route)
\* and 1.
Thresholds == {Zero, [nan |-> FALSE, sgn |-> 1, num |-> 49, den |-> 100], One}
SimilarLimits == {1, 2}

\* The stores of at most MaxSimilar events, newest first, that the load and
\* the ingests of events of one generator leave behind (the capacity plays no
\* part in the search).
SimilarStores ==
  { [i \in DOMAIN f |->
       [newEvent(uuidv4("call", i), IntrusionData)
          EXCEPT !.embedding = f[i], !.ord = Cardinality(DOMAIN f) - i + 1]] :
    f \in UNION { [1..n -> TestEmbeddings] : n \in 0..MaxSimilar } }

\* A store at rest: the load has ended and no request is in flight.
SimilarInit ==
  /\ events \in SimilarStores
  /\ inserted = Len(events)
  /\ isGenerating = FALSE
  /\ provider = "working"
  /\ init = [pc |-> "done", i |-> SampleCount + 1, ev |-> NoEvent]
  /\ calls = <<>>
  /\ timers = 0
  /\ patch = IdlePatch
  /\ patches = 0
  /\ last = Op("step", 0)

SimilarGet ==
  /\ Yielded
  /\ \E id \in PatchIds, threshold \in Thresholds, limit \in SimilarLimits :
       last' = [op |-> "similar", id |-> id,
                res |-> IF getEventById(events, id) THEN 200 ELSE 404,
                out |-> IF getEventById(events, id)
                        THEN searchSimilarEvents(events, events[findIndex(events, id)],
                                                 threshold, limit)
                        ELSE <<>>,
                threshold |-> threshold, limit |-> limit]
  /\ UNCHANGED <<events, isGenerating, provider, init, calls, timers, patch, patches,
                 inserted>>

\* ------------------------------------------------------- getTopThreats
\* The category and the severity of the events the generators make, for the
\* stores of a run of the top threats.
ThreatData ==
  { [event_type |-> "intrusion", severity |-> "high"],
    [event_type |-> "intrusion", severity |-> "low"],
    [event_type |-> "network_anomaly", severity |-> "high"],
    [event_type |-> "network_anomaly", severity |-> "low"],
    [event_type |-> "data_breach", severity |-> "critical"] }

\* The limits of the calls of a run: below, at and above the number of groups.
ThreatLimits == {1, 2, 5}

\* The stores of at most MaxThreats generated events, newest first.
ThreatStores ==
  { [i \in DOMAIN f |->
       [newEvent(uuidv4("call", i), IntrusionData)
          EXCEPT !.event_type = f[i].event_type, !.severity = f[i].severity,
                 !.ord = Cardinality(DOMAIN f) - i + 1]] :
    f \in UNION { [1..n -> ThreatData] : n \in 0..MaxThreats } }

\* A store at rest: the load has ended and no request is in flight.
ThreatInit ==
  /\ events \in ThreatStores
  /\ inserted = Len(events)
  /\ isGenerating = FALSE
  /\ provider = "absent"
  /\ init = [pc |-> "done", i |-> SampleCount + 1, ev |-> NoEvent]
  /\ calls = <<>>
  /\ timers = 0
  /\ patch = IdlePatch
  /\ patches = 0
  /\ last = Op("step", 0)

TopThreats ==
  /\ Yielded
  /\ \E limit \in ThreatLimits :
       last' = [op |-> "top", id |-> NoId, res |-> getTopThreats(events, limit),
                limit |-> limit]
  /\ UNCHANGED <<events, isGenerating, provider, init, calls, timers, patch, patches,
                 inserted>>

\* ----------------------------------------------- generateIntrusionEvent
\* A call of the generator: it draws the attempts and the protocol and
\* returns the event.
generateIntrusionEvent ==
  /\ Yielded
  /\ \E random \in 0..(MaxAttempts - 1), protocol \in Protocols :
       last' = [op |-> "generate", id |-> NoId,
                res |-> intrusionEvent(random + 1, protocol)]
  /\ UNCHANGED <<events, isGenerating, provider, init, calls, timers, patch, patches,
                 inserted>>

\* --------------------------------------------------- GET /api/events/[id]
\* The event of the id, or 404 with no event.
EventGet ==
  /\ Yielded
  /\ \E id \in PatchIds :
       LET i == findIndex(events, id) IN
       last' = [op |-> "get", id |-> id, res |-> IF i # 0 THEN 200 ELSE 404,
                out |-> IF i # 0 THEN events[i] ELSE NoEvent]
  /\ UNCHANGED <<events, isGenerating, provider, init, calls, timers, patch, patches,
                 inserted>>

\* ---------------------------------------------------- updateEventStatus
\* The store the load leaves behind when no sample was analysed or embedded.
UpdateStores ==
  { [i \in 1..SampleCount |->
       [sampleEvent(uuidv4("sample", i), IntrusionData, 1) EXCEPT !.ord = i]] }

\* A store at rest: the load has ended and no request is in flight.
UpdateInit ==
  /\ events \in UpdateStores
  /\ inserted = Len(events)
  /\ isGenerating = FALSE
  /\ provider = "absent"
  /\ init = [pc |-> "done", i |-> SampleCount + 1, ev |-> NoEvent]
  /\ calls = <<>>
  /\ timers = 0
  /\ patch = IdlePatch
  /\ patches = 0
  /\ last = Op("step", 0)

\* A call updateEventStatus(id, status) with any of the four statuses; `from`
\* is the status of the event found before the call.
UpdateStatus ==
  /\ Yielded
  /\ \E id \in PatchIds, status \in Statuses :
       LET r == updateEventStatus(events, id, status, <<>>) IN
       /\ events' = r.events
       /\ last' = [op |-> "update", id |-> id, res |-> IF r.ok THEN 200 ELSE 404,
                   status |-> status,
                   from |-> IF getEventById(events, id)
                            THEN events[findIndex(events, id)].status ELSE "none"]
  /\ UNCHANGED <<isGenerating, provider, init, calls, timers, patch, patches, inserted>>

\* ------------------------------------------------------- GET /api/stats
StatsGet ==
  /\ Yielded
  /\ last' = [op |-> "stats", id |-> NoId, res |-> getStats(events),
              topThreats |-> getTopThreats(events, 5)]
  /\ UNCHANGED <<events, isGenerating, provider, init, calls, timers, patch, patches,
                 inserted>>

\* ------------------------------------------- getStats at a time of call
NoShift == 100000

\* The zones of a run: UTC, one ahead of it, one behind it, and two whose
\* clocks move at 02:00 of day 10, one hour back and one hour forward.
Zones ==
  { [offset |-> 0, shiftAt |-> NoShift, shift |-> 0],
    [offset |-> 2, shiftAt |-> NoShift, shift |-> 0],
    [offset |-> -5, shiftAt |-> NoShift, shift |-> 0],
    [offset |-> 0, shiftAt |-> 10 * Day + 2, shift |-> -1],
    [offset |-> 0, shiftAt |-> 10 * Day + 2, shift |-> 1] }

\* The times of the calls: noon of day 10, and 23:00 and 24:00 of it by UTC.
NowTimes == {10 * Day + 12, 11 * Day - 1, 11 * Day}

\* The timestamps of the stored events: two hours and a day and a half
\* before the noon of day 10, eight days before it, and the string of a
\* body written at that noon.
WindowTimes == {10 * Day + 10, 9 * Day, 2 * Day + 12, ISOString}

\* The stores of at most MaxWindow events of the generators and of POST
\* bodies, newest first.
WindowStores ==
  { [i \in DOMAIN f |->
       [newEvent(uuidv4("call", i), IntrusionData)
          EXCEPT !.timestamp = f[i].timestamp, !.severity = f[i].severity,
                 !.ord = Cardinality(DOMAIN f) - i + 1]] :
    f \in UNION { [1..n -> [timestamp : WindowTimes, severity : {"critical", "low"}]] :
                  n \in 0..MaxWindow } }

\* A store at rest: the load has ended and no request is in flight.
WindowInit ==
  /\ events \in WindowStores
  /\ inserted = Len(events)
  /\ isGenerating = FALSE
  /\ provider = "absent"
  /\ init = [pc |-> "done", i |-> SampleCount + 1, ev |-> NoEvent]
  /\ calls = <<>>
  /\ timers = 0
  /\ patch = IdlePatch
  /\ patches = 0
  /\ last = Op("step", 0)

\* getStats() called at the time now in a process of the zone.
StatsAt ==
  /\ Yielded
  /\ \E now \in NowTimes, zone \in Zones :
       last' = [op |-> "statsAt", id |-> NoId, res |-> getStatsAt(events, now, zone),
                now |-> now, zone |-> zone]
  /\ UNCHANGED <<events, isGenerating, provider, init, calls, timers, patch, patches,
                 inserted>>

\* ------------------------------------------------------------------ next
AddStep == \E c \in 1..Len(calls) : AddAfterAnalysis(c) \/ AddAfterEmbedding(c)

Respond == \E c \in 1..Len(calls) : PostRespond(c)

Continue == \E c \in 1..Len(calls) : SchedContinue(c)

\* The sample load and the POST requests of the API.
Next ==
  \/ InitSampleStart
  \/ InitAfterAnalysis
  \/ InitAfterEmbedding
  \/ InitFinish
  \/ PostGenerate
  \/ PostCustom
  \/ AddStep
  \/ Respond

Spec == Init /\ [][Next]_vars

\* The sample load, the events that POST ingests and the PATCH requests on
\* them. The responses of POST, which read the store only, are in Spec.
PatchNext ==
  \/ InitSampleStart
  \/ InitAfterAnalysis
  \/ InitAfterEmbedding
  \/ InitFinish
  \/ PostGenerate
  \/ AddStep
  \/ PatchStart
  \/ PatchAfterAnalysis

PatchSpec == Init /\ [][PatchNext]_vars

\* The sample load and the continuous generation.
SchedNext ==
  \/ InitSampleStart
  \/ InitAfterAnalysis
  \/ InitAfterEmbedding
  \/ InitFinish
  \/ AddStep
  \/ Start
  \/ Stop
  \/ Continue
  \/ TimerFire

SchedSpec == Init /\ [][SchedNext]_vars

\* The sample load and the continuous generation of a scheduler that is
\* started and not stopped.
RunNext ==
  \/ InitSampleStart
  \/ InitAfterAnalysis
  \/ InitAfterEmbedding
  \/ InitFinish
  \/ AddStep
  \/ Start
  \/ Continue
  \/ TimerFire

RunSpec == Init /\ [][RunNext]_vars

\* The sample load and the POST requests that generate events while it
\* runs and after it.
OverlapNext ==
  \/ InitSampleStart
  \/ InitAfterAnalysis
  \/ InitAfterEmbedding
  \/ InitFinish
  \/ PostGenerateLater
  \/ AddStep

OverlapSpec == Init /\ [][OverlapNext]_vars

\* The sample load, the events that POST ingests and the requests for the
\* list of events.
ListNext ==
  \/ InitSampleStart
  \/ InitAfterAnalysis
  \/ InitAfterEmbedding
  \/ InitFinish
  \/ PostGenerate
  \/ AddStep
  \/ ListGet

ListSpec == Init /\ [][ListNext]_vars

\* The sample load, the events that POST ingests, the PATCH requests on them
\* and the requests for the statistics.
StatsNext ==
  \/ InitSampleStart
  \/ InitAfterAnalysis
  \/ InitAfterEmbedding
  \/ InitFinish
  \/ PostGenerate
  \/ AddStep
  \/ PatchStart
  \/ PatchAfterAnalysis
  \/ StatsGet

StatsSpec == Init /\ [][StatsNext]_vars

\* The requests for the events similar to one, on a store at rest.
SimilarNext == SimilarGet

SimilarSpec == SimilarInit /\ [][SimilarNext]_vars

\* The calls of getTopThreats on a store at rest.
ThreatNext == TopThreats

ThreatSpec == ThreatInit /\ [][ThreatNext]_vars

\* The events that POST ingests into a loaded store, the updates of the
\* status and the requests for the statistics.
UpdateNext ==
  \/ PostGenerate
  \/ AddStep
  \/ UpdateStatus
  \/ StatsGet

UpdateSpec == UpdateInit /\ [][UpdateNext]_vars

\* The POST requests on a loaded store, whatever their body.
IngestNext ==
  \/ PostGenerate
  \/ PostCustom
  \/ PostUnchecked
  \/ AddStep
  \/ Respond

IngestSpec == UpdateInit /\ [][IngestNext]_vars

\* The POST requests on a loaded store and the requests for one event.
GetNext ==
  \/ PostGenerate
  \/ PostCustom
  \/ AddStep
  \/ EventGet

GetSpec == UpdateInit /\ [][GetNext]_vars

\* The requests on a loaded store: the events that POST ingests, the PATCH
\* requests and the requests for the statistics.
ServeNext ==
  \/ PostGenerate
  \/ AddStep
  \/ PatchStart
  \/ PatchAfterAnalysis
  \/ StatsGet

\* A store at rest with any of the providers.
ServeInit ==
  /\ events \in UpdateStores
  /\ inserted = Len(events)
  /\ isGenerating = FALSE
  /\ provider \in AllProviders
  /\ init = [pc |-> "done", i |-> SampleCount + 1, ev |-> NoEvent]
  /\ calls = <<>>
  /\ timers = 0
  /\ patch = IdlePatch
  /\ patches = 0
  /\ last = Op("step", 0)

ServeSpec == ServeInit /\ [][ServeNext]_vars

\* The calls of the generator of intrusion events.
GenNext == generateIntrusionEvent

GenSpec == UpdateInit /\ [][GenNext]_vars

\* The requests for the statistics at the times and in the zones of a run.
WindowNext == StatsAt

WindowSpec == WindowInit /\ [][WindowNext]_vars

\* The event loop runs a continuation that is ready, and every request to
\* the provider settles (it succeeds, fails or times out).
InitStep ==
  \/ InitSampleStart
  \/ InitAfterAnalysis
  \/ InitAfterEmbedding
  \/ InitFinish

Fairness ==
  /\ WF_vars(InitStep)
  /\ WF_vars(AddStep)

FairSpec == PatchSpec /\ Fairness

\* A timer that is set fires, and the continuation of an await that has
\* settled runs.
LoopFairness ==
  /\ Fairness
  /\ WF_vars(Continue)
  /\ WF_vars(TimerFire)

LoopSpec == RunSpec /\ LoopFairness

\* ---------------------------------------------------------------- claims
Stored == 1..Len(events)

Made == 1..Len(calls)

Waiting(c) == calls[c].pc \in {"analysis", "embedding"}

Returned(c) == calls[c].pc = "returned"

\* C1: the store holds at most Capacity events, and they are exactly the
\* most recently inserted Capacity of all the events inserted so far.
C1_MostRecentCapacity ==
  /\ Len(events) <= Capacity
  /\ {events[i].ord : i \in Stored} = {n \in 1..inserted : n > inserted - Capacity}

C3_UniqueIds ==
  \A i, j \in Stored : i # j => events[i].id # events[j].id

\* C4: with a provider that fails on every request, the step in which a
\* call of Ingest returns gives it an id and leaves its event at the head of
\* the store under that id.
C4_FailureNeverEscapesIngest ==
  [][ provider = "failing" =>
        \A c \in Made :
          (Waiting(c) /\ calls'[c].pc = "returned") =>
            /\ calls'[c].ret # NoId
            /\ events' # <<>>
            /\ events'[1].id = calls'[c].ret
            /\ events'[1].ord = calls'[c].ord ]_vars

C4_ReturnedUnderFailure ==
  /\ provider = "failing"
  /\ Len(events) = Capacity
  /\ \E c \in Made : calls[c].pc = "returned" /\ events[1].ord = calls[c].ord

\* The event of call c carries the fallback analysis of its category, or
\* has left the store.
HasFallback(c) ==
  \A i \in Stored :
    events[i].ord = calls[c].ord =>
      events[i].ai_analysis = JSONstringify(getMockAnalysis(events[i].event_type))

\* C5: with a provider that is absent or always fails, every call of Ingest
\* leads to its event being stored with its analysis populated, and an
\* analysis that is populated stays populated while the event is stored.
C5_AnalysisEventuallyPopulated ==
  /\ \A c \in 1..MaxCalls :
       (provider # "working" /\ c <= Len(calls) /\ Waiting(c))
         ~> (c <= Len(calls) /\ Returned(c) /\ HasFallback(c))
  /\ [][ \A i \in Stored : \A j \in 1..Len(events') :
           (events'[j].ord = events[i].ord /\ events[i].ai_analysis # <<>>)
             => events'[j].ai_analysis # <<>> ]_vars

C5_FallbackStored ==
  /\ provider = "failing"
  /\ \E c \in Made :
       /\ Returned(c)
       /\ \E i \in Stored :
            /\ events[i].ord = calls[c].ord
            /\ events[i].ai_analysis = JSONstringify(getMockAnalysis(events[i].event_type))

\* C6: every stored event of one of the six categories that carries a
\* fallback analysis carries the entry the table holds for its own category.
C6_OwnEntryPerCategory ==
  provider # "working" =>
    \A i \in Stored :
      (events[i].ai_analysis # <<>> /\ events[i].event_type \in Categories) =>
        /\ events[i].event_type \in DOMAIN mockAnalyses
        /\ events[i].ai_analysis = JSONstringify(mockAnalyses[events[i].event_type])

\* C7: while the scheduler is stopped no call of Ingest is made; a timer
\* that fires then makes none and sets no further timer.
C7_NoIngestWhileStopped ==
  [][ (~isGenerating /\ ~isGenerating') =>
        /\ Len(calls') = Len(calls)
        /\ timers' <= timers + Cardinality({c \in Made : calls[c].pc = "returned"}) ]_vars

C7_TimerFiredWhileStopped ==
  /\ last.op = "timer"
  /\ last.res = 0
  /\ timers = 0
  /\ \A c \in Made : calls[c].pc = "done"

\* The generation loops that are live: the timers that are pending and the
\* iterations that wait for their Ingest.
LiveLoops == timers + Cardinality({c \in Made : calls[c].origin = "sched"})

\* C8: a start made while the scheduler is running changes nothing: no call
\* of Ingest, no timer, the same flag and the same collection.
C8_StartWhileRunningIsNoOp ==
  [][ (last'.op = "start" /\ isGenerating) =>
        /\ isGenerating'
        /\ calls' = calls
        /\ timers' = timers
        /\ events' = events ]_vars

C8_StartedWhileRunning ==
  /\ last.op = "start"
  /\ last.res = 1
  /\ LiveLoops = 1

\* C9: a stop, whatever the state of the scheduler, leaves it stopped and
\* changes neither the collection nor the calls of Ingest nor the timers.
C9_StopIsIdempotent ==
  [][ last'.op = "stop" =>
        /\ ~isGenerating'
        /\ events' = events
        /\ calls' = calls
        /\ timers' = timers ]_vars

C9_StoppedWhileStopped ==
  /\ last.op = "stop"
  /\ last.res = 0
  /\ ~isGenerating

\* C10: a PATCH whose id is not in the store when the status is applied
\* answers 404 and leaves the collection as it was.
C10_UnknownIdLeavesStore ==
  [][ (last'.op = "patch" /\ ~getEventById(events, last'.id)) =>
        /\ last'.res = 404
        /\ events' = events ]_vars

C10_UnknownIdRefused ==
  /\ last.op = "patch"
  /\ last.res = 404
  /\ last.id = UnknownId
  /\ Len(events) = Capacity

\* C11: a PATCH whose id is in the store when the status is applied answers
\* 200 and changes only the first event of that id: its status becomes the
\* new status, its analysis is replaced when, and only when, the request
\* came with a new analysis, and every other field, every other event, the
\* order and the size of the collection stay as they were.
C11_UpdateChangesOnlyThatEvent ==
  [][ (last'.op = "patch" /\ getEventById(events, last'.id)) =>
        LET i == findIndex(events, last'.id) IN
        /\ last'.res = 200
        /\ Len(events') = Len(events)
        /\ \A j \in Stored \ {i} : events'[j] = events[j]
        /\ events'[i].status \in PatchStatuses
        /\ events'[i] = [events[i] EXCEPT !.status = events'[i].status,
                                          !.ai_analysis = events'[i].ai_analysis]
        /\ patch.pc = "idle" => events'[i].ai_analysis = events[i].ai_analysis
        /\ patch.pc = "analysis" =>
             \E outcome \in Outcomes(provider) :
               events'[i].ai_analysis =
                 JSONstringify(analyzeSecurityEvent(provider, outcome,
                                                    patch.event_type).value) ]_vars

C11_UpdatedInPlace ==
  /\ last.op = "patch"
  /\ last.res = 200
  /\ Len(events) = Capacity
  /\ \E i, j \in Stored :
       /\ i # j
       /\ events[i].id = last.id
       /\ events[i].status = "resolved"
       /\ events[i].ai_analysis # <<>>
       /\ events[i].confidence_score = NoScore
       /\ events[j].status = "new"

\* The sum of the values of a table of counts.
RECURSIVE SumValues(_)
SumValues(f) ==
  IF DOMAIN f = {} THEN 0
  ELSE LET k == CHOOSE x \in DOMAIN f : TRUE IN
       f[k] + SumValues([x \in DOMAIN f \ {k} |-> f[x]])

\* C12: the statistics a request has just been given count every stored
\* event: totalEvents is the size of the collection, and the counts by
\* severity and the counts by status each sum to totalEvents.
C12_StatsTotalsAgree ==
  last.op = "stats" =>
    /\ last.res.totalEvents = Len(events)
    /\ SumValues(last.res.eventsBySeverity) = last.res.totalEvents
    /\ SumValues(last.res.eventsByStatus) = last.res.totalEvents

C12_StatsOfMixedStore ==
  /\ last.op = "stats"
  /\ last.res.totalEvents = Capacity
  /\ last.res.resolvedEvents = 1
  /\ last.res.newEvents = 1
  /\ Cardinality(DOMAIN last.res.eventsBySeverity) = 2

\* The stored events that pass the filters of the last request for the
\* list, in the order of the store.
Filtered ==
  SelectSeq(events,
            LAMBDA e : /\ last.filter.severity \in {"", e.severity}
                       /\ last.filter.eventType \in {"", e.event_type}
                       /\ last.filter.status \in {"", e.status})

\* C13: the page a request for the list is given holds the elements offset ..
\* offset + limit - 1 of the stored events that pass its filters, in the
\* order of the store, and hasMore tells whether offset + limit is less than
\* their number.
C13_PageOfFilteredStore ==
  last.op = "list" =>
    LET page == last.res.events
        rest == Len(Filtered) - last.offset IN
    /\ Len(page) = IF rest <= 0 THEN 0 ELSE IF rest < last.limit THEN rest ELSE last.limit
    /\ \A k \in 1..Len(page) : page[k] = Filtered[last.offset + k]
    /\ last.res.hasMore = (last.offset + last.limit < Len(Filtered))

\* C14: a request for the list whose offset + limit reaches past the end of
\* the stored events that pass its filters is given the elements that
\* remain, none when the offset is past the end too, and hasMore = false.
C14_PastTheEndGivesTheRest ==
  (last.op = "list" /\ last.offset + last.limit >= Len(Filtered)) =>
    /\ last.res.events = SubSeq(Filtered, last.offset + 1, Len(Filtered))
    /\ ~last.res.hasMore

\* C15: the list a request without filters is given has every event before
\* the events that were put into the store before it.
C15_NewestInsertionFirst ==
  (last.op = "list" /\ last.filter.severity = "" /\ last.filter.eventType = ""
                    /\ last.filter.status = "") =>
    \A k, l \in 1..Len(last.res.events) :
      k < l => last.res.events[k].ord > last.res.events[l].ord

\* The target of the last request for similar events, and the similarity
\* of a stored event to it.
Target == events[findIndex(events, last.id)]

SimilarityTo(e) == cosineSimilarity(Target.embedding, e.embedding)

Searched == last.op = "similar" /\ last.res = 200

\* The stored events the search may return: those with an embedding, an id
\* other than the target's and a similarity above the threshold.
Qualifying ==
  {i \in Stored : /\ events[i].embedding # <<>>
                  /\ events[i].id # last.id
                  /\ greaterThan(SimilarityTo(events[i]), last.threshold)}

\* C16: every event a search returns is a stored event other than the
\* target, has an embedding, and is similar to the target by strictly more
\* than the threshold.
C16_ResultsQualify ==
  Searched =>
    \A k \in 1..Len(last.out) :
      /\ \E i \in Stored : events[i] = last.out[k]
      /\ last.out[k].id # last.id
      /\ last.out[k].embedding # <<>>
      /\ ~SimilarityTo(last.out[k]).nan
      /\ LET x == SimilarityTo(last.out[k]) IN
         x.sgn * x.num * last.threshold.den
           > last.threshold.sgn * last.threshold.num * x.den

C16_FoundOneOfThree ==
  /\ Searched
  /\ Len(events) = MaxSimilar
  /\ Len(last.out) = 1
  /\ last.limit > 1
  /\ last.threshold # Zero
  /\ Target.embedding # last.out[1].embedding
  /\ \E i \in Stored : events[i].embedding = <<>>

\* C17: a search returns at most limit events, in an order in which the
\* similarity to the target never increases, and leaves out no qualifying
\* event that is more similar than one it returns.
C17_MostSimilarFirst ==
  Searched =>
    /\ Len(last.out) <= last.limit
    /\ \A k, l \in 1..Len(last.out) :
         k < l => ~greaterThan(SimilarityTo(last.out[l]), SimilarityTo(last.out[k]))
    /\ \A i \in Qualifying :
         (\A k \in 1..Len(last.out) : last.out[k] # events[i]) =>
           \A k \in 1..Len(last.out) :
             ~greaterThan(SimilarityTo(events[i]), SimilarityTo(last.out[k]))

C17_TruncatedToTheMostSimilar ==
  /\ Searched
  /\ last.limit = 1
  /\ Len(last.out) = 1
  /\ \E i \in Qualifying :
       /\ events[i].ord > last.out[1].ord
       /\ greaterThan(SimilarityTo(last.out[1]), SimilarityTo(events[i]))

\* The norm of the vector a is zero.
ZeroNorm(a) == sumProducts(a, a) = 0

\* C18: in a search, the similarity of the target to a candidate is the
\* number 0 whenever the embedding of one of the two has zero norm.
C18_ZeroNormGivesZero ==
  (Searched /\ Target.embedding # <<>>) =>
    \A i \in Stored :
      (/\ events[i].embedding # <<>>
       /\ events[i].id # last.id
       /\ Len(events[i].embedding) = Len(Target.embedding)
       /\ ZeroNorm(Target.embedding) \/ ZeroNorm(events[i].embedding)) =>
        /\ ~SimilarityTo(events[i]).nan
        /\ SimilarityTo(events[i]).sgn = 0

\* C19: a search whose target has no embedding returns no event and leaves
\* the collection as it was.
C19_NoEmbeddingNoResult ==
  [][ (last'.op = "similar" /\ last'.res = 200
         /\ events[findIndex(events, last'.id)].embedding = <<>>) =>
        /\ last'.out = <<>>
        /\ events' = events ]_vars

C19_SearchedWithoutEmbedding ==
  /\ Searched
  /\ Target.embedding = <<>>
  /\ last.threshold = Zero
  /\ Len(events) = MaxSimilar
  /\ \E i, j \in Stored :
       /\ i # j
       /\ ~ZeroNorm(events[i].embedding)
       /\ events[j].embedding = events[i].embedding

\* Two results of cosineSimilarity are the same number, or NaN both.
SameNumber(x, y) ==
  \/ x.nan /\ y.nan
  \/ /\ ~x.nan
     /\ ~y.nan
     /\ x.sgn = y.sgn
     /\ x.num * y.den = y.num * x.den

\* C20: the similarity of two stored embeddings does not depend on the order
\* in which the two are given.
C20_Symmetric ==
  \A i, j \in Stored :
    (events[i].embedding # <<>> /\ events[j].embedding # <<>>) =>
      SameNumber(cosineSimilarity(events[i].embedding, events[j].embedding),
                 cosineSimilarity(events[j].embedding, events[i].embedding))

C20_SearchedAmongUnequalNorms ==
  /\ Searched
  /\ Len(last.out) = 2
  /\ sumProducts(Target.embedding, Target.embedding)
       # sumProducts(last.out[1].embedding, last.out[1].embedding)
  /\ greaterThan(SimilarityTo(last.out[1]), SimilarityTo(last.out[2]))

\* The stored events other than the target that carry the target's embedding.
Duplicates ==
  {i \in Stored : events[i].id # last.id /\ events[i].embedding = Target.embedding}

\* The places of the result that hold an event with the target's embedding.
DuplicatePlaces ==
  {k \in 1..Len(last.out) : last.out[k].embedding = Target.embedding}

CountOf(type, severity) ==
  Cardinality({i \in Stored : events[i].event_type = type /\ events[i].severity = severity})

\* C22: every entry of the top threats names a category and a severity of
\* the closed sets, counts the stored events of that category and severity,
\* and no two entries name the same pair.
C22_EntriesNameTheirGroup ==
  last.op = "top" =>
    /\ \A k \in 1..Len(last.res) :
         /\ last.res[k].type \in Categories
         /\ last.res[k].severity \in Severities
         /\ last.res[k].count = CountOf(last.res[k].type, last.res[k].severity)
    /\ \A k, l \in 1..Len(last.res) :
         k # l => <<last.res[k].type, last.res[k].severity>>
                    # <<last.res[l].type, last.res[l].severity>>

\* The groups of the store, a group being the stored events of one category
\* and severity, named by the place of its first event.
GroupFirsts ==
  {i \in Stored :
     \A j \in 1..(i - 1) : threatKey(events[j]) # threatKey(events[i])}

GroupCount(i) == CountOf(events[i].event_type, events[i].severity)

\* The rank of the group of first place i: after the groups that count more
\* and the groups that count as much and were met before.
GroupRank(i) ==
  1 + Cardinality({j \in GroupFirsts :
                     \/ GroupCount(j) > GroupCount(i)
                     \/ GroupCount(j) = GroupCount(i) /\ j < i})

\* C23: the top threats are the first limit groups in the order of their
\* counts, largest first, groups of equal count in the order in which the
\* store, read from its front, first shows them.
C23_TopGroupsInOrder ==
  last.op = "top" =>
    /\ Len(last.res) <= last.limit
    /\ Len(last.res) = IF Cardinality(GroupFirsts) < last.limit
                       THEN Cardinality(GroupFirsts) ELSE last.limit
    /\ \A k \in 1..Len(last.res) :
         \E i \in GroupFirsts :
           /\ GroupRank(i) = k
           /\ last.res[k].count = GroupCount(i)
           /\ last.res[k].type = splitUnderscore(events[i].event_type)[1]

C23_LargerGroupMovedAhead ==
  /\ last.op = "top"
  /\ Len(events) = MaxThreats
  /\ Len(last.res) = 2
  /\ last.res[1].count = 2
  /\ GroupCount(1) = 1

\* C24: an event that stays in the store keeps the analysis and the
\* embedding it has: a step changes an analysis that was set only when it
\* is the update of a PATCH that asked for a new analysis of that id, and no
\* step changes an embedding that was set. The ingest of other events, the
\* eviction, the plain status updates and the reads leave both alone.
C24_EnrichmentKept ==
  [][ \A i \in 1..Len(events), j \in 1..Len(events') :
        events'[j].ord = events[i].ord =>
          /\ (events[i].ai_analysis # <<>> /\ events'[j].ai_analysis # events[i].ai_analysis) =>
               /\ last'.op = "patch"
               /\ last'.id = events[i].id
               /\ patch.pc = "analysis"
          /\ events[i].embedding # <<>> => events'[j].embedding = events[i].embedding ]_vars

C24_StatusUpdatedUnderNewerEvent ==
  /\ last.op = "patch"
  /\ last.res = 200
  /\ Len(events) = Capacity
  /\ events[2].id = last.id
  /\ events[2].status = "resolved"
  /\ events[2].ai_analysis # <<>>
  /\ events[2].embedding # <<>>
  /\ events[1].ord > events[2].ord

\* C25: the status of an event that stays in the store changes only in a
\* call of updateEventStatus that names the id of that event, and such a
\* call gives the first event of that id the status it names, whichever of
\* the four statuses the event had and whichever of the four is asked for.
C25_StatusFollowsUpdatesOnly ==
  [][ /\ \A i \in 1..Len(events), j \in 1..Len(events') :
           (events'[j].ord = events[i].ord /\ events'[j].status # events[i].status) =>
             /\ last'.op = "update"
             /\ last'.id = events[i].id
      /\ (last'.op = "update" /\ getEventById(events, last'.id)) =>
           /\ last'.from \in Statuses
           /\ last'.status \in Statuses
           /\ events'[findIndex(events, last'.id)].status = last'.status ]_vars

C25_ResolvedMovedBackToNew ==
  /\ last.op = "update"
  /\ last.res = 200
  /\ last.from = "resolved"
  /\ last.status = "new"
  /\ Len(events) = Capacity
  /\ \E i \in Stored : events[i].id = last.id /\ events[i].status = "new"
  /\ \E i \in Stored : events[i].id # last.id /\ events[i].status = "false_positive"

\* C26: every event of the store has its category, its severity and its
\* status inside their closed sets.
C26_StoredValuesInClosedSets ==
  \A i \in Stored :
    /\ events[i].event_type \in Categories
    /\ events[i].severity \in Severities
    /\ events[i].status \in Statuses

\* C27: an event has the status new in the step in which addEvent puts it
\* into the store.
C27_InsertedAsNew ==
  [][ \A j \in 1..Len(events') :
        events'[j].ord > inserted => events'[j].status = "new" ]_vars

\* C28: a request for the event of an id leaves the store as it is; when an
\* event of that id is in the store it answers 200 with a stored event of
\* that id, and when none is it answers 404 with no event.
C28_GetFindsOrReportsNotFound ==
  [][ last'.op = "get" =>
        /\ events' = events
        /\ IF \E i \in Stored : events[i].id = last'.id
           THEN /\ last'.res = 200
                /\ last'.out.id = last'.id
                /\ \E i \in Stored : events[i] = last'.out
           ELSE /\ last'.res = 404
                /\ last'.out = NoEvent ]_vars

C28_UnknownIdNotFound ==
  /\ last.op = "get"
  /\ last.res = 404
  /\ last.id = UnknownId
  /\ Len(events) = Capacity
  /\ \E i \in Stored : events[i].id = CustomId

\* The number of events the entries of a top-threats answer count.
RECURSIVE SumCounts(_)
SumCounts(entries) ==
  IF entries = <<>> THEN 0 ELSE entries[1].count + SumCounts(Tail(entries))

\* C29: no state lies inside a mutation. The step in which addEvent inserts
\* its event is also the step of the eviction: it leaves the new event
\* first, the events that were stored behind it in their order and no more
\* than Capacity events. A request for the statistics, with ingests and a
\* PATCH in flight around it, leaves the store alone and takes every one of
\* its totals from the one collection of that moment: the total, the counts
\* by category and the counts of the top threats all count each stored event
\* once.
C29_NoPartialMutationSeen ==
  [][ /\ (calls' # calls /\ inserted' = inserted + 1) =>
           /\ Len(events') <= Capacity
           /\ events'[1].ord = inserted'
           /\ \A j \in 2..Len(events') : events'[j] = events[j - 1]
      /\ last'.op = "stats" =>
           /\ events' = events
           /\ last'.res.totalEvents = Len(events)
           /\ SumValues(last'.res.eventsByType) = Len(events)
           /\ SumCounts(last'.topThreats) = Len(events) ]_vars

C29_StatsReadBetweenPatchSteps ==
  /\ last.op = "stats"
  /\ patch.pc = "analysis"
  /\ inserted > Capacity
  /\ Len(events) = Capacity
  /\ SumCounts(last.topThreats) = Capacity

\* C30: a generated intrusion event has between 1 and 50 attempts, and its
\* severity is critical above 30 attempts, high above 15 and up to 30,
\* medium above 5 and up to 15, and low up to 5.
C30_SeverityStepsWithAttempts ==
  last.op = "generate" =>
    LET a == last.res.attempts
        s == last.res.severity IN
    /\ a \in 1..50
    /\ a > 30 => s = "critical"
    /\ (15 < a /\ a <= 30) => s = "high"
    /\ (5 < a /\ a <= 15) => s = "medium"
    /\ a <= 5 => s = "low"

C30_ThirtyAttemptsStillHigh ==
  /\ last.op = "generate"
  /\ last.res.attempts = 30
  /\ last.res.severity = "high"
  /\ last.res.event_type = "intrusion"

\* The step in which a call of addEvent puts its event into the store.
IngestStep == calls' # calls /\ inserted' = inserted + 1

\* C31: the step in which addEvent inserts into a store of Capacity events
\* leaves Capacity events: the new one, then the events that were stored
\* but the last, each as it was and in their order; and the event it
\* removes, the last, is the one that was inserted before all the others.
C31_EvictsOldestInsertion ==
  [][ (IngestStep /\ Len(events) = Capacity) =>
        /\ Len(events') = Capacity
        /\ events'[1].ord = inserted'
        /\ \A j \in 2..Capacity : events'[j] = events[j - 1]
        /\ \A i \in Stored : events[Capacity].ord <= events[i].ord ]_vars

\* The last request asked for the statistics at a time of call.
AskedAt == last.op = "statsAt"

\* The calendar day of the call on the clock of the process.
DayOfCall == local(last.now, last.zone) \div Day

\* The stored events that bucket k of the daily statistics counts.
CountedIn(k) ==
  LET dayStart == setHoursStart(last.now - (7 - k) * Day, last.zone)
      dayEnd == setHoursEnd(dayStart, last.zone) IN
  {i \in Stored : /\ timestampAtLeast(events[i].timestamp, dayStart)
                  /\ timestampAtMost(events[i].timestamp, dayEnd)}

RECURSIVE SumEvents(_)
SumEvents(buckets) ==
  IF buckets = <<>> THEN 0 ELSE buckets[1].events + SumEvents(Tail(buckets))

\* C32: the daily statistics have 7 buckets, bucket k dated 7 - k days
\* before the day of the call; in each the four severity counts sum to the
\* count of events; no stored event is counted in two buckets, and the
\* counts of the buckets sum to no more than totalEvents.
C32_SevenDaysEndingToday ==
  AskedAt =>
    LET daily == last.res.dailyStats IN
    /\ Len(daily) = 7
    /\ \A k \in 1..7 :
         /\ daily[k].date = DayOfCall - (7 - k)
         /\ daily[k].critical + daily[k].high + daily[k].medium + daily[k].low
              = daily[k].events
    /\ \A i \in Stored : Cardinality({k \in 1..7 : i \in CountedIn(k)}) <= 1
    /\ SumEvents(daily) <= last.res.totalEvents

\* The time a timestamp tells: the string is of a body written at the noon
\* of day 10.
TimeOf(ts) == IF ts = ISOString THEN 10 * Day + 12 ELSE ts

\* The number of stored events whose timestamp tells a time after t.
StoredAfter(t) == Cardinality({i \in Stored : TimeOf(events[i].timestamp) > t})

\* C33: recentEvents is the number of stored events whose timestamp is
\* later than the time of the call less 24 hours, weeklyEvents the number
\* later than the time of the call less 7 days, and recentEvents <=
\* weeklyEvents <= totalEvents.
C33_WindowsCountByTimeOfCall ==
  AskedAt =>
    /\ last.res.recentEvents = StoredAfter(last.now - Day)
    /\ last.res.weeklyEvents = StoredAfter(last.now - 7 * Day)
    /\ last.res.recentEvents <= last.res.weeklyEvents
    /\ last.res.weeklyEvents <= last.res.totalEvents

\* The calls of Ingest that the scheduler made and that have not returned.
SchedInFlight(cs) ==
  {c \in 1..Len(cs) : cs[c].origin = "sched" /\ cs[c].pc \in {"analysis", "embedding"}}

C35_OneLoopWhileRunning == isGenerating => LiveLoops <= 1

\* C36: a scheduler that is started and not stopped goes from each call of
\* Ingest to the next, as far as the bound on the calls lets it, whatever
\* the provider does; and the iteration that takes up the end of its Ingest
\* always sets the timer of the next.
C36_LoopKeepsIngesting ==
  /\ \A n \in 1..(MaxCalls - 1) :
       (isGenerating /\ Len(calls) = n) ~> (Len(calls) = n + 1)
  /\ [][ \A c \in Made :
           (calls[c].origin = "sched" /\ calls'[c] = DoneCall) =>
             timers' = timers + 1 ]_vars

C36_NextIterationUnderFailure ==
  /\ provider = "failing"
  /\ isGenerating
  /\ Len(calls) = MaxCalls
  /\ calls[MaxCalls].origin = "sched"
  /\ calls[MaxCalls].pc = "returned"
  /\ Len(events) = Capacity

\* C37: a stored event that has an analysis and a confidence_score has the
\* confidence_score that its analysis contains.
C37_ScoreIsThatOfAnalysis ==
  \A i \in Stored :
    (events[i].ai_analysis # <<>> /\ events[i].confidence_score # NoScore) =>
      events[i].confidence_score = events[i].ai_analysis[2]

\* C38: a PATCH that asks for a new analysis makes the Classify request
\* only for an event that is in the store, and applies nothing before the
\* request settles; when it has settled the status and the analysis are
\* applied in one step to the first event of the id, and if no event of the
\* id is in the store by then the answer is 404 and the store is as it was.
C38_ReanalysisAppliedTogether ==
  [][ /\ (patch.pc = "idle" /\ patch'.pc = "analysis") =>
           /\ getEventById(events, patch'.id)
           /\ events' = events
      /\ (patch.pc = "idle" /\ last'.op = "patch" /\ ~getEventById(events, last'.id)) =>
           /\ patch'.pc = "idle"
           /\ last'.res = 404
           /\ events' = events
      /\ patch.pc = "analysis" =>
           IF patch'.pc = "idle"
           THEN /\ last'.op = "patch"
                /\ last'.id = patch.id
                /\ IF getEventById(events, patch.id)
                   THEN LET i == findIndex(events, patch.id) IN
                        /\ last'.res = 200
                        /\ events'[i].status = patch.status
                        /\ events'[i].ai_analysis \in
                             {JSONstringify(analyzeSecurityEvent(provider, o,
                                                                 patch.event_type).value) :
                                o \in Outcomes(provider)}
                   ELSE /\ last'.res = 404
                        /\ events' = events
           ELSE \A i \in 1..Len(events), j \in 1..Len(events') :
                  events'[j].ord = events[i].ord => events'[j] = events[i] ]_vars

C38_EvictedWhileClassifying ==
  /\ last.op = "patch"
  /\ last.res = 404
  /\ last.id # UnknownId
  /\ Len(events) = Capacity
  /\ \A i \in Stored : events[i].status = "new" /\ events[i].id # last.id

\* C39: an event enters the store through addEvent only in the step in
\* which the embedding request of its call, the later of the two, settles:
\* it enters with an analysis and an embedding, and no call that still
\* waits for either request has an event in the store.
C39_VisibleOnlyWhenEnriched ==
  [][ /\ IngestStep =>
           \E c \in Made :
             /\ calls[c].pc = "embedding"
             /\ calls'[c].pc = "returned"
             /\ calls'[c].ord = events'[1].ord
             /\ events'[1].id = calls[c].ev.id
             /\ events'[1].ai_analysis = calls[c].ev.ai_analysis
             /\ events'[1].ai_analysis # <<>>
             /\ events'[1].embedding # <<>>
      /\ \A c \in 1..Len(calls') :
           calls'[c].pc \in {"analysis", "embedding"} =>
             /\ calls'[c].ord = 0
             /\ calls'[c].ev.ord = 0 ]_vars

C39_StoredBesideWaitingCall ==
  /\ provider = "failing"
  /\ \E c, d \in Made :
       /\ calls[c].pc = "returned"
       /\ calls[d].pc = "embedding"
       /\ events[1].ord = calls[c].ord
       /\ events[1].embedding # <<>>
       /\ events[1].ai_analysis # <<>>

\* The places of the store that hold the event of call c.
PlacesOf(c) == {i \in Stored : events[i].ord = calls[c].ord}

\* C40: the event of a call of Ingest that has returned is in the store
\* once and no more, and is in it while it is among the Capacity events
\* inserted last; and of the events of two calls the one whose enrichment
\* finished later stands before the other.
C40_OverlappingIngestsKept ==
  /\ \A c \in Made :
       Returned(c) =>
         /\ Cardinality(PlacesOf(c)) <= 1
         /\ inserted - calls[c].ord < Capacity => Cardinality(PlacesOf(c)) = 1
  /\ \A c, d \in Made :
       (Returned(c) /\ Returned(d) /\ calls[c].ord < calls[d].ord) =>
         \A i \in PlacesOf(c), j \in PlacesOf(d) : j < i

====
